---- MODULE Spec2Model ----
(***************************************************************************)
(* A model of the two-agent event pipeline of agent-events.ts:             *)
(*   callAgent -> eventLookupAgent (LangGraph loop agent <-> tools with a  *)
(*   MongoDB checkpointer) -> marker dispatch -> webSearchAgent (Tavily    *)
(*   searches raced against 10s timers, synthesis raced against 15s, the   *)
(*   whole web stage raced against 45s).                                   *)
(*                                                                         *)
(* Strings are sequences of tokens; the two handoff markers are single     *)
(* tokens.  Time inside the web stage is counted in units of 5 seconds.    *)
(***************************************************************************)
EXTENDS Naturals, Integers, Sequences, FiniteSets, TLC

(***************************************************************************)
(* Bounds of the model.                                                    *)
(***************************************************************************)
MaxRuns == 2
MaxToolCycles == 1

Runs == 1..MaxRuns
Threads == {1, 2}

(***************************************************************************)
(* Program constants.                                                      *)
(***************************************************************************)
\* recursionLimit: 15 graph steps (a step is one node execution)
RecursionLimit == 15
\* setTimeout(..., 10000): per-search deadline, in 5 s units
SearchDeadline == 2
\* setTimeout(..., 15000): synthesis deadline, in 5 s units
SynthDeadline == 3
\* setTimeout(..., 45000): whole web stage deadline, in 5 s units
WebStageDeadline == 9

(***************************************************************************)
(* Tokens and string operations.                                           *)
(***************************************************************************)
FWD == "PASS_TO_WEB_AGENT"
NONE == "NO_RESULTS_FOUND"
REC == "RECOMMENDATIONS"
SP == " "
NL == "\n"

IsSpace(tok) == tok \in {SP, NL}

\* String.prototype.includes for a marker token
Includes(s, tok) == \E i \in 1..Len(s) : s[i] = tok

\* the positions of tok in s
Occurrences(s, tok) == {i \in 1..Len(s) : s[i] = tok}

\* the position of the k-th occurrence of tok in s
KthOccurrence(s, tok, k) ==
    CHOOSE p \in Occurrences(s, tok) :
        Cardinality({q \in Occurrences(s, tok) : q <= p}) = k

\* String.prototype.split(tok): the segments between occurrences of tok
SplitOn(s, tok) ==
    LET n == Cardinality(Occurrences(s, tok))
    IN [k \in 1..(n + 1) |->
           SubSeq(s,
                  IF k = 1 THEN 1 ELSE KthOccurrence(s, tok, k - 1) + 1,
                  IF k = n + 1 THEN Len(s) ELSE KthOccurrence(s, tok, k) - 1)]

\* the positions of s that hold something else than white space
Inked(s) == {i \in 1..Len(s) : ~IsSpace(s[i])}

TrimLeft(s) ==
    IF Inked(s) = {} THEN << >>
    ELSE SubSeq(s, CHOOSE i \in Inked(s) : \A j \in Inked(s) : i <= j, Len(s))

TrimRight(s) ==
    IF Inked(s) = {} THEN << >>
    ELSE SubSeq(s, 1, CHOOSE i \in Inked(s) : \A j \in Inked(s) : j <= i)

\* String.prototype.trim
Trim(s) == TrimRight(TrimLeft(s))

\* .map(line => line.trim())
MapTrim(ss) == [i \in 1..Len(ss) |-> Trim(ss[i])]

\* .filter(line => line.length > 0)
FilterNonEmpty(ss) ==
    LET nonEmpty(line) == Len(line) > 0
    IN SelectSeq(ss, nonEmpty)

(***************************************************************************)
(* Strings that may or may not be JSON.  A "text" string is a token        *)
(* sequence that JSON.parse rejects; a "json" string is the serialisation  *)
(* of the value val.                                                       *)
(***************************************************************************)
NoJson == [tag |-> "none"]

Text(toks) == [kind |-> "text", toks |-> toks, val |-> NoJson]

\* a string that is the JSON text toks of the value val
JsonText(toks, val) == [kind |-> "json", toks |-> toks, val |-> val]

\* JSON.stringify(value)
JSONstringify(value) == [kind |-> "json", toks |-> << >>, val |-> value]

\* JSON.parse(s): ok = FALSE stands for the SyntaxError it throws
JSONparse(s) ==
    IF s.kind = "json" THEN [ok |-> TRUE, val |-> s.val]
    ELSE [ok |-> FALSE, val |-> NoJson]

(***************************************************************************)
(* The texts the chat model of the retrieval agent may end a turn with.    *)
(***************************************************************************)
PlainAnswer == << "a" >>
FwdTwo == << "a", NL, FWD, NL, "x", NL, "y" >>
FwdThree == << "a", FWD, "x", NL, "y", NL, "z" >>
FwdEmpty == << "a", NL, FWD >>
FwdBlank == << "a", FWD, SP, NL >>
FwdTwice == << "a", FWD, "x", NL, FWD, "y" >>
FwdAndNone == << NONE, NL, FWD, NL, "x" >>
NoResults == << NONE >>
EmptyAnswer == << >>

RetrievalTexts ==
    {PlainAnswer, FwdTwo, FwdThree, FwdEmpty, FwdBlank, FwdTwice, FwdAndNone,
     NoResults, EmptyAnswer}

\* a forward with five directives
FwdFive == << "a", FWD, "v", NL, "w", NL, "x", NL, "y", NL, "z" >>

LongRetrievalTexts == {FwdFive}

\* what the synthesis model may answer: with the marker, without it, nothing
SynthTexts == {<< REC, ":", "v" >>, << "v" >>, << >>}

PlainQuery == Text(<< "q" >>)

\* what a user may type: plain text, or text that JSON.parse accepts (a
\* number, null, an object with a searchSummary)
UserQueries ==
    {PlainQuery,
     JsonText(<< "2025" >>, [tag |-> "number"]),
     JsonText(<< "null" >>, [tag |-> "null"]),
     JsonText(<< "{\"searchSummary\":\"x\"}" >>,
              [tag |-> "object", searchSummary |-> << "x" >>])}

\* outcomes of vectorStore.similaritySearchWithScore for the run's query
VectorOutcomes == {"hits", "empty", "error"}

(***************************************************************************)
(* Messages of a session.                                                  *)
(***************************************************************************)
HumanMessage(r, q) == [role |-> "human", run |-> r, content |-> q, tool_calls |-> 0]

AIMessage(r, toks, calls) ==
    [role |-> "ai", run |-> r, content |-> Text(toks), tool_calls |-> calls]

ToolMessage(r, toks) ==
    [role |-> "tool", run |-> r, content |-> Text(toks), tool_calls |-> 0]

\* eventLookupTool: the string the tool returns for each vector-search outcome
eventLookupTool(outcome) ==
    CASE outcome = "hits" -> << "hits" >>
      [] outcome = "empty" -> << NONE >>
      [] OTHER -> << NONE, "error" >>

(***************************************************************************)
(* State.                                                                  *)
(*   store    the checkpoint collaborator: thread_id -> messages of the    *)
(*            latest checkpoint                                            *)
(*   nextRun  the next request to arrive                                   *)
(*   run      per request: where callAgent stands, its arguments, the      *)
(*            retrieval result and the values it has returned              *)
(*   loop     per request: the graph state of app.invoke                   *)
(*   web      per request: the locals of webSearchAgent and its timers     *)
(*   produced per request: the messages the request has produced so far    *)
(*   overlapped  thread_id -> whether two retrieval stages on it ever      *)
(*            overlapped                                                   *)
(*   env      what the collaborators may do in this specification          *)
(*   now      the value of Date.now(), in milliseconds                     *)
(*   fresh    the requests that came without a thread id                   *)
(***************************************************************************)
VARIABLES store, nextRun, run, loop, web, produced, overlapped, env, now, fresh

vars == << store, nextRun, run, loop, web, produced, overlapped, env, now, fresh >>

IdleRun ==
    [pc |-> "idle", query |-> Text(<< >>), thread_id |-> 0, vec |-> "hits",
     loaded |-> FALSE, dbResults |-> << >>, mode |-> "none", fault |-> "none",
     timedOut |-> FALSE, ret |-> << >>]

IdleLoop == [messages |-> << >>, step |-> 0, prompt |-> << >>, calls |-> 0, tools |-> 0]

IdleWeb ==
    [pc |-> "off", query |-> Text(<< >>), dbResults |-> << >>,
     searchQueries |-> << >>, idx |-> 0, searchResults |-> << >>,
     clock |-> 0, due |-> 0, lateSearch |-> FALSE, lateSynth |-> FALSE,
     issued |-> << >>, synthCalls |-> 0, synthPrompt |-> << >>,
     synthEnd |-> "none", out |-> << >>]

InitWith(e) ==
    /\ store = [t \in Threads |-> << >>]
    /\ nextRun = 1
    /\ run = [r \in Runs |-> IdleRun]
    /\ loop = [r \in Runs |-> IdleLoop]
    /\ web = [r \in Runs |-> IdleWeb]
    /\ produced = [r \in Runs |-> << >>]
    /\ overlapped = [t \in Threads |-> FALSE]
    /\ env = e
    /\ now = 1
    /\ fresh = {}

\* one request, every collaborator outcome; a reply of the chat model requests
\* up to two tool calls
Init ==
    InitWith([finals |-> RetrievalTexts, threads |-> {1}, requests |-> 1,
              overlap |-> FALSE, cycles |-> RecursionLimit, fanout |-> 2,
              vecs |-> VectorOutcomes, queries |-> {PlainQuery}])

\* requests one after the other on two sessions; the retrieval agent answers
\* plainly, forwards two directives or reports no results, after at most
\* MaxToolCycles tool requests; the vector search has hits; the web
\* collaborators settle at once
InitSession ==
    InitWith([finals |-> {PlainAnswer, FwdTwo, NoResults}, threads |-> Threads,
              requests |-> MaxRuns, overlap |-> FALSE, cycles |-> MaxToolCycles,
              fanout |-> 1, vecs |-> {"hits"}, queries |-> {PlainQuery}])

\* requests that may overlap on one session; the retrieval agent answers
\* plainly after at most MaxToolCycles tool requests; the vector search has
\* hits; the web collaborators settle at once
InitConc ==
    InitWith([finals |-> {PlainAnswer}, threads |-> {1}, requests |-> MaxRuns,
              overlap |-> TRUE, cycles |-> MaxToolCycles, fanout |-> 1,
              vecs |-> {"hits"}, queries |-> {PlainQuery}])

\* requests that may overlap, with or without a thread id, while the clock
\* runs; the retrieval agent answers plainly after at most MaxToolCycles tool
\* requests; the vector search has hits; the web collaborators settle at once
InitFresh ==
    InitWith([finals |-> {PlainAnswer}, threads |-> Threads, requests |-> MaxRuns,
              overlap |-> TRUE, cycles |-> MaxToolCycles, fanout |-> 1,
              vecs |-> {"hits"}, queries |-> {PlainQuery}])

\* one request that the retrieval agent forwards with five directives, after
\* at most MaxToolCycles tool requests; the vector search has hits; the web
\* collaborators answer, fail or stay silent
InitSlow ==
    InitWith([finals |-> LongRetrievalTexts, threads |-> {1}, requests |-> 1,
              overlap |-> FALSE, cycles |-> MaxToolCycles, fanout |-> 1,
              vecs |-> {"hits"}, queries |-> {PlainQuery}])

\* one request with any of the user queries; the retrieval agent reports no
\* results after at most MaxToolCycles tool requests; the vector search is
\* empty or fails; the web collaborators settle at once
InitJson ==
    InitWith([finals |-> {NoResults}, threads |-> {1}, requests |-> 1,
              overlap |-> FALSE, cycles |-> MaxToolCycles, fanout |-> 1,
              vecs |-> {"empty", "error"}, queries |-> UserQueries])

InRetrieval(r) == run[r].pc \in {"loading", "agent", "tools"}

\* the request has been answered and nothing of it is still running
Quiescent(r) == run[r].pc \in {"idle", "responded"} /\ web[r].pc \in {"off", "done"}

\* the chat model answers or a collaborator fails within the first cycles,
\* or the model goes on requesting tools
Early(r) == loop[r].step <= 2 * MaxToolCycles

(***************************************************************************)
(* index.ts: a request arrives and the handler calls callAgent, which      *)
(* calls eventLookupAgent, which calls app.invoke.                         *)
(***************************************************************************)
Start(r, q, t, v) ==
    /\ r = nextRun
    /\ r <= env.requests
    /\ t \in env.threads
    /\ v \in env.vecs
    /\ q \in env.queries
    /\ run[r].pc = "idle"
    /\ env.overlap \/ \A o \in Runs : Quiescent(o)
    /\ nextRun' = nextRun + 1
    /\ run' = [run EXCEPT ![r] = [IdleRun EXCEPT !.pc = "loading", !.query = q,
                                                 !.thread_id = t, !.vec = v]]
    /\ produced' = [produced EXCEPT ![r] = << HumanMessage(r, q) >>]
    /\ overlapped' = [overlapped EXCEPT ![t] =
                         @ \/ \E o \in Runs : InRetrieval(o) /\ run[o].thread_id = t]
    /\ UNCHANGED << store, loop, web, env, now, fresh >>

\* app.post('/chat'): the thread id of a new conversation is Date.now()
NewChat(r, q, v) ==
    /\ r = nextRun
    /\ r <= env.requests
    /\ now \in env.threads
    /\ v \in env.vecs
    /\ q \in env.queries
    /\ run[r].pc = "idle"
    /\ env.overlap \/ \A o \in Runs : Quiescent(o)
    /\ nextRun' = nextRun + 1
    /\ run' = [run EXCEPT ![r] = [IdleRun EXCEPT !.pc = "loading", !.query = q,
                                                 !.thread_id = now, !.vec = v]]
    /\ produced' = [produced EXCEPT ![r] = << HumanMessage(r, q) >>]
    /\ overlapped' = [overlapped EXCEPT ![now] =
                         @ \/ \E o \in Runs : InRetrieval(o) /\ run[o].thread_id = now]
    /\ fresh' = fresh \cup {r}
    /\ UNCHANGED << store, loop, web, env, now >>

\* a millisecond passes
ClockTick ==
    /\ now + 1 \in env.threads
    /\ now' = now + 1
    /\ UNCHANGED << store, nextRun, run, loop, web, produced, overlapped, env, fresh >>

\* the reducer of the messages channel: (x, y) => x.concat(y)
reducerPrepends(x, y) == y \o x

reducerReplaces(x, y) == y

reducer(x, y) == x \o y

\* recursionLimit: a graph step may run while fewer than 15 have run
WithinLimitInclusive(r) == loop[r].step <= RecursionLimit

WithinLimit(r) == loop[r].step < RecursionLimit

\* checkpointer.put: the latest checkpoint of the thread is the run's state
PutCheckpoint(t, messages) == [store EXCEPT ![t] = messages]

\* app.invoke: load the thread's latest checkpoint, apply the input through
\* the reducer x.concat(y), save the input checkpoint
LoadCheckpoint(r) ==
    /\ run[r].pc = "loading"
    /\ LET t == run[r].thread_id
           m == reducer(store[t], << HumanMessage(r, run[r].query) >>)
       IN /\ loop' = [loop EXCEPT ![r] = [IdleLoop EXCEPT !.messages = m]]
          /\ store' = PutCheckpoint(t, m)
    /\ run' = [run EXCEPT ![r].pc = "agent", ![r].loaded = TRUE]
    /\ UNCHANGED << nextRun, web, produced, overlapped, env, now, fresh >>

shouldContinueAlways(lastMessage) == "tools"

\* shouldContinue
shouldContinue(lastMessage) == IF lastMessage.tool_calls > 0 THEN "tools" ELSE "__end__"

\* node "agent" (callModel): render the prompt from state.messages, invoke
\* the model, append its reply; then the conditional edge
AgentReply(r, toks, calls) ==
    /\ run[r].pc = "agent"
    /\ WithinLimit(r)
    /\ calls = 0 => Early(r) /\ toks \in env.finals
    /\ calls > 0 => toks = EmptyAnswer /\ loop[r].tools < env.cycles
    /\ calls <= env.fanout
    /\ calls > 1 => Early(r)
    /\ LET t == run[r].thread_id
           reply == AIMessage(r, toks, calls)
           m == reducer(loop[r].messages, << reply >>)
       IN /\ loop' = [loop EXCEPT ![r].messages = m,
                                  ![r].prompt = loop[r].messages,
                                  ![r].step = @ + 1,
                                  ![r].calls = @ + 1]
          /\ store' = PutCheckpoint(t, m)
          /\ produced' = [produced EXCEPT ![r] = @ \o << reply >>]
          /\ IF shouldContinue(reply) = "tools"
             THEN run' = [run EXCEPT ![r].pc = "tools"]
             ELSE run' = [run EXCEPT ![r].pc = "handoff", ![r].dbResults = toks]
    /\ UNCHANGED << nextRun, web, overlapped, env, now, fresh >>

ToolStepRaises(r) ==
    /\ run[r].pc = "tools"
    /\ WithinLimit(r)
    /\ IF run[r].vec = "error"
       THEN /\ run' = [run EXCEPT ![r].pc = "handoff", ![r].dbResults = << NONE >>,
                                  ![r].fault = "tool_error"]
            /\ UNCHANGED << store, loop, produced >>
       ELSE LET t == run[r].thread_id
                lastMessage == loop[r].messages[Len(loop[r].messages)]
                results == [i \in 1..lastMessage.tool_calls |->
                               ToolMessage(r, eventLookupTool(run[r].vec))]
                m == loop[r].messages \o results
            IN /\ loop' = [loop EXCEPT ![r].messages = m, ![r].step = @ + 1,
                                       ![r].tools = @ + 1]
               /\ store' = [store EXCEPT ![t] = m]
               /\ produced' = [produced EXCEPT ![r] = @ \o results]
               /\ run' = [run EXCEPT ![r].pc = "agent"]
    /\ UNCHANGED << nextRun, web, overlapped, env, now, fresh >>

\* node "tools" (ToolNode): run events_lookup for every tool call of the last
\* message, append one result message per call
ToolStep(r) ==
    /\ run[r].pc = "tools"
    /\ WithinLimit(r)
    /\ LET t == run[r].thread_id
           lastMessage == loop[r].messages[Len(loop[r].messages)]
           results == [i \in 1..lastMessage.tool_calls |->
                          ToolMessage(r, eventLookupTool(run[r].vec))]
           m == reducer(loop[r].messages, results)
       IN /\ loop' = [loop EXCEPT ![r].messages = m, ![r].step = @ + 1,
                                  ![r].tools = @ + 1]
          /\ store' = PutCheckpoint(t, m)
          /\ produced' = [produced EXCEPT ![r] = @ \o results]
    /\ run' = [run EXCEPT ![r].pc = "agent"]
    /\ UNCHANGED << nextRun, web, overlapped, env, now, fresh >>

\* the catch of callAgent: the apology
Apology ==
    << "I apologize, but I encountered an error while processing your request. Please try again or rephrase your query." >>

RetrievalCatchRethrows(r, why) ==
    run' = [run EXCEPT ![r].pc = "done", ![r].ret = << Apology >>, ![r].fault = why]

\* the catch of eventLookupAgent: whatever was thrown, the result is the
\* no-results marker
RetrievalCatch(r, why) ==
    run' = [run EXCEPT ![r].pc = "handoff", ![r].dbResults = << NONE >>,
                       ![r].fault = why]

\* recursionLimit reached with a node still to run: GraphRecursionError
StepLimit(r) ==
    /\ InRetrieval(r)
    /\ run[r].pc # "loading"
    /\ ~WithinLimit(r)
    /\ RetrievalCatch(r, "step_limit")
    /\ UNCHANGED << store, nextRun, loop, web, produced, overlapped, env, now, fresh >>

\* model.invoke rejects (callModel rethrows), the checkpointer rejects, or
\* the 60 s timeout of app.invoke aborts the graph
RetrievalFault(r, why) ==
    /\ InRetrieval(r)
    /\ Early(r)
    /\ why \in {"model_error", "checkpoint_error", "timeout"}
    /\ why = "model_error" => run[r].pc = "agent"
    /\ RetrievalCatch(r, why)
    /\ UNCHANGED << store, nextRun, loop, web, produced, overlapped, env, now, fresh >>

RetrievalTimeoutUnarmed(r) ==
    /\ FALSE
    /\ RetrievalCatch(r, "timeout")
    /\ UNCHANGED << store, nextRun, loop, web, produced, overlapped, env, now, fresh >>

\* timeout: 60000 of app.invoke: the timer fires while a node of the graph
\* (the chat model, or the tool with its vector search) is still pending;
\* invoke rejects and the pending call is left to itself
RetrievalTimeout(r) ==
    /\ run[r].pc \in {"agent", "tools"}
    /\ RetrievalCatch(r, "timeout")
    /\ UNCHANGED << store, nextRun, loop, web, produced, overlapped, env, now, fresh >>

(***************************************************************************)
(* The strings callAgent and webSearchAgent build.                         *)
(***************************************************************************)
NoDatabaseResults == << "No database results found." >>

\* webSearchAgent's fallback (synthesis failed or timed out)
WebFallback(dbResults) ==
    << REC, NL, "I found these events but couldn't verify all details:", NL >>
        \o dbResults

\* callAgent's fallback of the forward branch
ForwardFallback(dbResults) ==
    << REC, NL, "I found some events but couldn't verify all details:", NL >>
        \o SplitOn(dbResults, FWD)[1]

\* callAgent's fallback of the web-only branch
NothingFound ==
    << REC, NL, "I couldn't find any specific events in our database or through web search. Please try a different city or check back later." >>

(***************************************************************************)
(* callAgent after eventLookupAgent has returned (its graph state is gone):*)
(* the marker dispatch.                                                    *)
(***************************************************************************)
DecisionVerifiesPlain(dbResults) ==
    IF dbResults = << >> THEN "return"
    ELSE IF Includes(dbResults, FWD) THEN "forward"
    ELSE "webonly"

DecisionNoResultsFirst(dbResults) ==
    IF dbResults = << >> THEN "return"
    ELSE IF Includes(dbResults, NONE) THEN "webonly"
    ELSE IF Includes(dbResults, FWD) THEN "forward"
    ELSE "return"

Decision(dbResults) ==
    IF dbResults = << >> THEN "return"
    ELSE IF Includes(dbResults, FWD) THEN "forward"
    ELSE IF Includes(dbResults, NONE) THEN "webonly"
    ELSE "return"

\* the enhancedQuery object of the forward branch
EnhancedQuery(query, dbResults) ==
    [tag |-> "object",
     originalQuery |-> query,
     searchSummary |-> Trim(SplitOn(dbResults, FWD)[2]),
     dbResults |-> Trim(SplitOn(dbResults, FWD)[1])]

AsTexts(ss) == [i \in 1..Len(ss) |-> Text(ss[i])]

\* webSearchAgent: "Parse the enhanced query if available"; reading a
\* property of null throws, which the catch answers like a parse error
ParseSearchQueries(query) ==
    LET parsed == JSONparse(query) IN
    IF ~parsed.ok THEN << query >>
    ELSE IF parsed.val.tag = "null" THEN << query >>
    ELSE IF parsed.val.tag = "object" /\ parsed.val.searchSummary # << >>
         THEN AsTexts(FilterNonEmpty(MapTrim(SplitOn(parsed.val.searchSummary, NL))))
         ELSE << >>

SynthesisPromptWithoutErrors(query, dbResults, searchResults) ==
    LET good(e) == e.error = "none"
    IN [query |-> query, dbResults |-> dbResults,
        searchResults |-> SelectSeq(searchResults, good)]

\* resultsContext: what the prompt of the synthesis call is built from
SynthesisPrompt(query, dbResults, searchResults) ==
    [query |-> query, dbResults |-> dbResults, searchResults |-> searchResults]

\* webSearchAgent up to its first await: the first search is issued, or, with
\* no search query, the synthesis model is invoked at once
WebStart(query, dbResults) ==
    LET qs == ParseSearchQueries(query) IN
    IF qs = << >>
    THEN [IdleWeb EXCEPT !.pc = "synth", !.query = query, !.dbResults = dbResults,
                         !.idx = 1, !.due = SynthDeadline, !.synthCalls = 1,
                         !.synthPrompt = << SynthesisPrompt(query, dbResults, << >>) >>]
    ELSE [IdleWeb EXCEPT !.pc = "search", !.query = query, !.dbResults = dbResults,
                         !.searchQueries = qs, !.idx = 1, !.due = SearchDeadline,
                         !.issued = << qs[1] >>]

\* the call of webSearchAgent that callAgent makes for each query and each
\* retrieval output, tabulated
Verification ==
    [q \in UserQueries, db \in RetrievalTexts \cup LongRetrievalTexts |->
        LET d == Decision(db)
        IN IF d = "forward" THEN WebStart(JSONstringify(EnhancedQuery(q, db)), db)
           ELSE IF d = "webonly" THEN WebStart(q, NoDatabaseResults)
           ELSE IdleWeb]

HandoffVerifiesTwice(r) ==
    /\ run[r].pc = "handoff"
    /\ LET db == run[r].dbResults
           d == Decision(db)
       IN CASE d \in {"forward", "webonly"} ->
                 /\ run' = [run EXCEPT ![r].mode = d,
                                       ![r].pc = IF web[r].pc = "off" THEN "handoff" ELSE "web"]
                 /\ web' = [web EXCEPT ![r] = Verification[run[r].query, db]]
            [] OTHER ->
                 /\ run' = [run EXCEPT ![r].pc = "done", ![r].ret = << db >>]
                 /\ web' = web
    /\ loop' = [loop EXCEPT ![r] = IdleLoop]
    /\ UNCHANGED << store, nextRun, produced, overlapped, env, now, fresh >>

Handoff(r) ==
    /\ run[r].pc = "handoff"
    /\ LET db == run[r].dbResults
           d == Decision(db)
       IN CASE d = "forward" ->
                 /\ run' = [run EXCEPT ![r].pc = "web", ![r].mode = "forward"]
                 /\ web' = [web EXCEPT ![r] = Verification[run[r].query, db]]
            [] d = "webonly" ->
                 /\ run' = [run EXCEPT ![r].pc = "web", ![r].mode = "webonly"]
                 /\ web' = [web EXCEPT ![r] = Verification[run[r].query, db]]
            [] OTHER ->
                 /\ run' = [run EXCEPT ![r].pc = "done", ![r].ret = << db >>]
                 /\ web' = web
    /\ loop' = [loop EXCEPT ![r] = IdleLoop]
    /\ UNCHANGED << store, nextRun, produced, overlapped, env, now, fresh >>

(***************************************************************************)
(* webSearchAgent: the search loop and the synthesis, each await raced     *)
(* against its timer.                                                      *)
(***************************************************************************)
SearchOk(q) == [query |-> q, results |-> "results", error |-> "none"]

SearchError(q, message) == [query |-> q, results |-> "none", error |-> message]

AfterSearchAbortsOnError(w, entry) ==
    LET res == Append(w.searchResults, entry)
        i == w.idx + 1
    IN IF i <= Len(w.searchQueries) /\ entry.error = "none"
       THEN [w EXCEPT !.searchResults = res, !.idx = i,
                      !.due = w.clock + SearchDeadline,
                      !.issued = Append(@, w.searchQueries[i])]
       ELSE [w EXCEPT !.searchResults = res, !.idx = i, !.pc = "synth",
                      !.due = w.clock + SynthDeadline,
                      !.synthCalls = @ + 1,
                      !.synthPrompt = Append(@, SynthesisPrompt(w.query, w.dbResults, res))]

\* after searchResults.push(entry): the next search, or the synthesis call
AfterSearch(w, entry) ==
    LET res == Append(w.searchResults, entry)
        i == w.idx + 1
    IN IF i <= Len(w.searchQueries)
       THEN [w EXCEPT !.searchResults = res, !.idx = i,
                      !.due = w.clock + SearchDeadline,
                      !.issued = Append(@, w.searchQueries[i])]
       ELSE [w EXCEPT !.searchResults = res, !.idx = i, !.pc = "synth",
                      !.due = w.clock + SynthDeadline,
                      !.synthCalls = @ + 1,
                      !.synthPrompt = Append(@, SynthesisPrompt(w.query, w.dbResults, res))]

\* the 45 s timer of callAgent is due and has not fired: it was set before
\* the timers of webSearchAgent, so it fires before any of them due with it
StageTimerDue(r) == run[r].pc = "web" /\ web[r].clock = WebStageDeadline

\* tavilyTool.invoke settles before the 10 s timer
SearchSettle(r, ok) ==
    /\ web[r].pc = "search"
    /\ LET q == web[r].searchQueries[web[r].idx]
       IN web' = [web EXCEPT ![r] =
              AfterSearch(web[r], IF ok THEN SearchOk(q) ELSE SearchError(q, "search failed"))]
    /\ UNCHANGED << store, nextRun, run, loop, produced, overlapped, env, now, fresh >>

\* the 10 s timer rejects first; the search stays pending
SearchTimeout(r) ==
    /\ web[r].pc = "search"
    /\ web[r].clock = web[r].due
    /\ ~StageTimerDue(r)
    /\ LET q == web[r].searchQueries[web[r].idx]
           w == [web[r] EXCEPT !.lateSearch = TRUE]
       IN web' = [web EXCEPT ![r] = AfterSearch(w, SearchError(q, "Search timeout"))]
    /\ UNCHANGED << store, nextRun, run, loop, produced, overlapped, env, now, fresh >>

\* a search abandoned by its timer settles at last: nobody listens
LateSearchSettle(r) ==
    /\ web[r].lateSearch
    /\ web' = [web EXCEPT ![r].lateSearch = FALSE]
    /\ UNCHANGED << store, nextRun, run, loop, produced, overlapped, env, now, fresh >>

WebReturnOverwrites(w, r, value) ==
    /\ web' = [w EXCEPT ![r] =
                  IF run[r].pc = "responded" THEN IdleWeb
                  ELSE [w[r] EXCEPT !.pc = "done", !.out = << value >>]]
    /\ run' = [run EXCEPT ![r] =
                  IF run[r].pc \in {"web", "done"}
                  THEN [run[r] EXCEPT !.pc = "done", !.ret = << value >>]
                  ELSE run[r]]

\* webSearchAgent returns value; callAgent's race takes it if still pending
WebReturn(w, r, value) ==
    /\ web' = [w EXCEPT ![r] =
                  IF run[r].pc = "responded" THEN IdleWeb
                  ELSE [w[r] EXCEPT !.pc = "done", !.out = << value >>]]
    /\ run' = [run EXCEPT ![r] =
                  IF run[r].pc = "web"
                  THEN [run[r] EXCEPT !.pc = "done", !.ret = Append(@, value)]
                  ELSE run[r]]

\* model.invoke of the synthesis settles before the 15 s timer: its content,
\* or on rejection the fallback
SynthSettle(r, ok, toks) ==
    /\ web[r].pc = "synth"
    /\ ok => toks \in SynthTexts
    /\ ~ok => toks = WebFallback(web[r].dbResults)
    /\ WebReturn([web EXCEPT ![r].synthEnd = IF ok THEN "ok" ELSE "failed"], r, toks)
    /\ UNCHANGED << store, nextRun, loop, produced, overlapped, env, now, fresh >>

\* the 15 s timer rejects first: the .catch of the race gives the fallback
SynthTimeout(r) ==
    /\ web[r].pc = "synth"
    /\ web[r].clock = web[r].due
    /\ ~StageTimerDue(r)
    /\ WebReturn([web EXCEPT ![r].lateSynth = TRUE, ![r].synthEnd = "timeout"],
                 r, WebFallback(web[r].dbResults))
    /\ UNCHANGED << store, nextRun, loop, produced, overlapped, env, now, fresh >>

\* the synthesis call abandoned by its timer settles at last: processPromise
\* resolves, and the race has long been settled
LateSynthSettle(r) ==
    /\ web[r].lateSynth
    /\ web' = [web EXCEPT ![r].lateSynth = FALSE]
    /\ UNCHANGED << store, nextRun, run, loop, produced, overlapped, env, now, fresh >>

StageTimeoutEscapes(r) ==
    /\ StageTimerDue(r)
    /\ run' = [run EXCEPT ![r].pc = "rejected", ![r].timedOut = TRUE]
    /\ UNCHANGED << store, nextRun, loop, web, produced, overlapped, env, now, fresh >>

\* callAgent: the 45 s timer rejects before webSearchAgent has returned; the
\* catch around the awaited race returns the branch's fallback
StageTimeout(r) ==
    /\ run[r].pc = "web"
    /\ StageTimerDue(r)
    /\ run' = [run EXCEPT ![r].pc = "done", ![r].timedOut = TRUE,
                  ![r].ret = Append(@, IF run[r].mode = "forward"
                                       THEN ForwardFallback(run[r].dbResults)
                                       ELSE NothingFound)]
    /\ UNCHANGED << store, nextRun, loop, web, produced, overlapped, env, now, fresh >>

\* 5 seconds pass while webSearchAgent awaits; no armed timer is overdue
Tick(r) ==
    /\ web[r].pc \in {"search", "synth"}
    /\ web[r].clock < web[r].due
    /\ run[r].pc = "web" => web[r].clock < WebStageDeadline
    /\ web' = [web EXCEPT ![r].clock = @ + 1]
    /\ UNCHANGED << store, nextRun, run, loop, produced, overlapped, env, now, fresh >>

(***************************************************************************)
(* index.ts: the handler answers the request with what callAgent returned  *)
(* (or with status 500, had it rejected).  The locals of the request are   *)
(* gone after that.                                                        *)
(***************************************************************************)
Respond(r) ==
    /\ run[r].pc \in {"done", "rejected"}
    /\ run' = [run EXCEPT ![r] = [IdleRun EXCEPT !.pc = "responded",
                                                 !.thread_id = run[r].thread_id,
                                                 !.loaded = run[r].loaded]]
    /\ loop' = [loop EXCEPT ![r] = IdleLoop]
    /\ web' = [web EXCEPT ![r] = IF web[r].pc \in {"search", "synth"} THEN web[r] ELSE IdleWeb]
    /\ UNCHANGED << store, nextRun, produced, overlapped, env, now, fresh >>

\* the steps of a request whose web collaborators settle at once
Step(r) ==
        \/ \E q \in UserQueries, t \in Threads, v \in VectorOutcomes : Start(r, q, t, v)
        \/ LoadCheckpoint(r)
        \/ \E toks \in RetrievalTexts \cup LongRetrievalTexts, calls \in {0, 1, 2} :
              AgentReply(r, toks, calls)
        \/ ToolStep(r)
        \/ \E why \in {"model_error", "checkpoint_error", "timeout"} : RetrievalFault(r, why)
        \/ Handoff(r)
        \/ \E ok \in BOOLEAN : SearchSettle(r, ok)
        \/ \E ok \in BOOLEAN, toks \in SynthTexts \cup {WebFallback(web[r].dbResults)} :
              SynthSettle(r, ok, toks)
        \/ Respond(r)

\* time passing, the timers, and what they abandon
TimedStep(r) ==
        \/ Tick(r)
        \/ SearchTimeout(r)
        \/ LateSearchSettle(r)
        \/ SynthTimeout(r)
        \/ LateSynthSettle(r)
        \/ StageTimeout(r)
        \/ RetrievalTimeout(r)

Next == \E r \in Runs : Step(r) \/ StepLimit(r) \/ TimedStep(r)

NextSession == \E r \in Runs : Step(r)

Spec == Init /\ [][Next]_vars

SpecSession == InitSession /\ [][NextSession]_vars

SpecConc == InitConc /\ [][NextSession]_vars

SpecJson == InitJson /\ [][NextSession]_vars

\* the timers fire and the synchronous code of the program runs on; the
\* checkpoint store answers; nothing is assumed of the chat model, the
\* vector search and the web search
TimerStep(r) ==
        \/ LoadCheckpoint(r)
        \/ RetrievalTimeout(r)
        \/ StepLimit(r)
        \/ Handoff(r)
        \/ Tick(r)
        \/ SearchTimeout(r)
        \/ SynthTimeout(r)
        \/ StageTimeout(r)

TimersFire == \A r \in Runs : WF_vars(TimerStep(r))

NextSlow == \E r \in Runs : Step(r) \/ TimedStep(r)

SpecSlow == InitSlow /\ [][NextSlow]_vars

NextFresh ==
    \/ \E r \in Runs : Step(r)
    \/ \E r \in Runs, q \in UserQueries, v \in VectorOutcomes : NewChat(r, q, v)
    \/ ClockTick

SpecFresh == InitFresh /\ [][NextFresh]_vars

SpecLive == Init /\ [][Next]_vars /\ TimersFire

(***************************************************************************)
(* Properties.                                                             *)
(***************************************************************************)
IsPrefix(a, b) == Len(a) <= Len(b) /\ SubSeq(b, 1, Len(a)) = a

AllSearchesFailed(w) ==
    /\ Len(w.searchResults) >= 1
    /\ Len(w.searchResults) = Len(w.searchQueries)
    /\ \A i \in 1..Len(w.searchResults) : w.searchResults[i].error # "none"

\* C1: callAgent never rejects to its caller, whatever the collaborators do:
\* it returns at most once, and once it has ended it has returned exactly
\* one value.
CallAgentNeverRejects ==
    \A r \in Runs :
        /\ run[r].pc # "rejected"
        /\ Len(run[r].ret) <= 1
        /\ run[r].pc = "done" => Len(run[r].ret) = 1

\* a request whose checkpoint store failed, whose web search failed and whose
\* synthesis failed has still returned a value
C1Witness ==
    \E r \in Runs :
        /\ run[r].pc = "done"
        /\ run[r].fault = "checkpoint_error"
        /\ AllSearchesFailed(web[r])
        /\ run[r].ret = << WebFallback(NoDatabaseResults) >>

\* C2: whenever the retrieval output carries the forward marker, the
\* verification agent runs with at least one non-empty search directive;
\* when nothing but whitespace follows the marker, that directive is the
\* db_summary.
ForwardHasDirective ==
    \A r \in Runs :
        run[r].mode = "forward" /\ web[r].pc # "off" =>
            LET qs == web[r].searchQueries
                parts == SplitOn(run[r].dbResults, FWD)
            IN /\ Len(qs) >= 1
               /\ \A i \in 1..Len(qs) : qs[i].toks # << >>
               /\ Trim(parts[2]) = << >> => qs = << Text(Trim(parts[1])) >>

\* C3 as claimed: the loop stops at exactly 15 full model-then-tool cycles,
\* and what the controller gets on a step-limit failure differs from every
\* answer the retrieval agent can give, the no-results answer included.
StepLimitAtFifteenCycles ==
    \A r \in Runs :
        /\ loop[r].tools <= RecursionLimit
        /\ run[r].fault = "step_limit" =>
              /\ loop[r].tools = RecursionLimit
              /\ run[r].dbResults \notin RetrievalTexts

\* C3 as amended: the loop never runs more than 15 graph steps, a step being
\* one model invocation or one tool-node run (at most 8 invocations and 7
\* tool runs); a model that always requests a tool stops the loop at exactly
\* that ceiling, and the controller gets the no-results marker.
StepLimitAtFifteenSteps ==
    \A r \in Runs :
        /\ loop[r].step <= RecursionLimit
        /\ loop[r].step = loop[r].calls + loop[r].tools
        /\ loop[r].calls <= (RecursionLimit + 1) \div 2
        /\ loop[r].tools <= RecursionLimit \div 2
        /\ run[r].fault = "step_limit" /\ run[r].pc = "handoff" =>
              /\ loop[r].step = RecursionLimit
              /\ loop[r].calls = loop[r].tools + 1
              /\ run[r].dbResults = NoResults

C3Witness ==
    \E r \in Runs :
        /\ run[r].fault = "step_limit"
        /\ run[r].pc = "handoff"
        /\ loop[r].tools = 7
        /\ loop[r].calls = 8

\* C4: when every search directive of webSearchAgent fails or times out, the
\* value it returns is a non-empty string that begins with RECOMMENDATIONS,
\* whatever the synthesis call does.
AllFailedStillRecommends ==
    \A r \in Runs :
        web[r].pc = "done" /\ AllSearchesFailed(web[r]) =>
            /\ web[r].out[1] # << >>
            /\ Head(web[r].out[1]) = REC

\* C5: in web-only mode with every web query failing, callAgent returns the
\* fixed "nothing found" string.
WebOnlyAllFailedNothingFound ==
    \A r \in Runs :
        run[r].pc = "done" /\ run[r].mode = "webonly" /\ AllSearchesFailed(web[r]) =>
            run[r].ret = << NothingFound >>

\* C6: in each timeout race the first to settle decides: work that settles
\* before its deadline yields its value, a deadline that fires first yields
\* the fallback, and what the abandoned work does later neither changes a
\* value already yielded nor makes callAgent return again.
RaceYieldsOnce ==
    /\ [](\A r \in Runs :
            /\ Len(run[r].ret) <= 1
            /\ run[r].pc = "done" /\ run[r].mode # "none" =>
                  IF run[r].timedOut
                  THEN run[r].ret = << IF run[r].mode = "forward"
                                       THEN ForwardFallback(run[r].dbResults)
                                       ELSE NothingFound >>
                  ELSE run[r].ret = web[r].out
            /\ web[r].pc = "done" =>
                  IF web[r].lateSynth
                  THEN web[r].out = << WebFallback(web[r].dbResults) >>
                  ELSE web[r].out[1] \in SynthTexts \cup {WebFallback(web[r].dbResults)})
    /\ [][\A r \in Runs :
            /\ run[r].ret # << >> /\ run'[r].pc # "responded" => run'[r].ret = run[r].ret
            /\ web[r].out # << >> /\ web'[r].pc # "off" => web'[r].out = web[r].out
            /\ web[r].pc # "off" /\ web'[r].pc # "off" =>
                  IsPrefix(web[r].searchResults, web'[r].searchResults)]_vars

\* the 45 s timer won, and webSearchAgent returned something else afterwards
C6Witness ==
    \E r \in Runs :
        /\ run[r].pc = "done"
        /\ run[r].timedOut
        /\ web[r].pc = "done"
        /\ web[r].out # run[r].ret
        /\ web[r].lateSearch

\* C7: a retrieval answer with neither marker is returned unmodified, and no
\* web search and no synthesis call is made in that run.
PlainAnswerUnverified ==
    \A r \in Runs :
        /\ run[r].pc \in {"handoff", "web", "done"}
        /\ ~Includes(run[r].dbResults, FWD)
        /\ ~Includes(run[r].dbResults, NONE)
        => /\ web[r] = IdleWeb
           /\ run[r].pc # "web"
           /\ run[r].pc = "done" => run[r].ret = << run[r].dbResults >>

C7Witness ==
    \E r \in Runs : run[r].pc = "done" /\ run[r].dbResults = PlainAnswer

\* C10: every search directive is searched exactly once, in order, and a
\* failed or timed-out search does not end the batch: when the search loop is
\* over the batch holds one entry per directive, in directive order, with
\* that query's results or its error.
SearchBatchComplete ==
    \A r \in Runs :
        LET w == web[r]
            n == Len(w.searchResults)
        IN /\ w.pc \in {"synth", "done"} =>
                 /\ n = Len(w.searchQueries)
                 /\ w.issued = w.searchQueries
           /\ w.pc = "search" =>
                 /\ n = w.idx - 1
                 /\ w.issued = SubSeq(w.searchQueries, 1, w.idx)
           /\ \A i \in 1..n :
                 /\ w.searchResults[i].query = w.searchQueries[i]
                 /\ (w.searchResults[i].error = "none") = (w.searchResults[i].results = "results")

\* three directives: the first timed out, the second failed, the third
\* was searched all the same
C10Witness ==
    \E r \in Runs :
        /\ web[r].pc = "synth"
        /\ Len(web[r].searchResults) = 3
        /\ web[r].searchResults[1].error = "Search timeout"
        /\ web[r].searchResults[2].error = "search failed"
        /\ web[r].searchResults[3].error = "none"

\* the human and assistant messages of request r in a message sequence
TurnOf(messages, r) ==
    LET mine(m) == m.run = r /\ m.role \in {"human", "ai"}
    IN SelectSeq(messages, mine)

\* every message of request r1 in the sequence stands before every message
\* of request r2
AllBefore(messages, r1, r2) ==
    \A i, j \in 1..Len(messages) :
        messages[i].run = r1 /\ messages[j].run = r2 => i < j

\* C8 as claimed: the sequence stored for a thread_id at an earlier time is a
\* prefix of the sequence stored for it at any later time, also when runs on
\* the same thread_id are concurrent.
SessionAppendOnly ==
    [][\A t \in Threads : IsPrefix(store[t], store'[t])]_vars

\* C8 as amended: the same, as long as no two retrieval stages on that
\* thread_id have overlapped in time.
SessionAppendOnlyUnlessOverlap ==
    [][\A t \in Threads : ~overlapped'[t] => IsPrefix(store[t], store'[t])]_vars

\* a second request appended to what the first, which had failed, had left
C8Witness ==
    \E t \in Threads :
        /\ ~overlapped[t]
        /\ Len(store[t]) >= 4
        /\ store[t][1].run = 1
        /\ store[t][Len(store[t])].run = 2
        /\ run[1].pc = "responded"
        /\ \E i \in 1..Len(store[t]) : store[t][i].run = 1 /\ store[t][i].tool_calls > 0
                                       /\ i + 1 <= Len(store[t]) /\ store[t][i + 1].run = 2

ForwardSynthFailureSummaryOnly ==
    \A r \in Runs :
        /\ run[r].pc = "done"
        /\ run[r].mode = "forward"
        /\ web[r].synthEnd \in {"failed", "timeout"}
        => /\ ~Includes(run[r].ret[1], FWD)
           /\ \E sentence \in {WebFallback(<< >>)[3], ForwardFallback(<< >>)[3]} :
                 run[r].ret[1] = << REC, NL, sentence, NL >> \o SplitOn(run[r].dbResults, FWD)[1]

EmptyAndErrorSameToolMessage ==
    \A r \in Runs :
        run[r].vec \in {"empty", "error"} =>
            \A i \in 1..Len(produced[r]) :
                produced[r][i].role = "tool" =>
                    produced[r][i] = ToolMessage(r, eventLookupTool("empty"))

\* C14: two requests that came without a thread id never have the same
\* thread id, also when they arrive concurrently or within one clock tick.
FreshThreadIdsDistinct ==
    \A r1, r2 \in fresh : r1 # r2 => run[r1].thread_id # run[r2].thread_id

\* C15: the controller follows Retrieving -> {Forwarding, Terminal},
\* Forwarding -> Verifying, Verifying -> Done: webSearchAgent is started only
\* by the step that leaves the decision on the retrieval result, which every
\* invocation takes at most once because it never goes back to an earlier
\* state; once callAgent has returned, its value stays and nothing follows
\* but the handler's response.
ControllerStateMachine ==
    [][\A r \in Runs :
          /\ InRetrieval(r) => InRetrieval(r)' \/ run'[r].pc = "handoff"
          /\ run[r].pc = "handoff" => run'[r].pc \in {"handoff", "web", "done"}
          /\ run[r].pc = "web" => run'[r].pc \in {"web", "done"}
          /\ run[r].pc = "done" =>
                 /\ run'[r].pc \in {"done", "responded"}
                 /\ run'[r].pc = "done" => run'[r].ret = run[r].ret
          /\ run[r].pc = "responded" => run'[r].pc = "responded"
          /\ web[r].pc = "off" /\ web'[r].pc # "off" =>
                 /\ run[r].pc = "handoff"
                 /\ run'[r].pc = "web"
                 /\ loop[r].messages # << >> => run[r].fault # "none" \/
                        run[r].dbResults = loop[r].messages[Len(loop[r].messages)].content.toks
          /\ web[r].pc # "off" /\ web'[r].pc # "off" =>
                 /\ web'[r].query = web[r].query
                 /\ web'[r].searchQueries = web[r].searchQueries
                 /\ web'[r].idx >= web[r].idx]_vars

\* a forward run went through retrieval, decision and verification and has
\* returned what webSearchAgent gave it
C15Witness ==
    \E r \in Runs :
        /\ run[r].pc = "done"
        /\ run[r].mode = "forward"
        /\ web[r].pc = "done"
        /\ web[r].synthEnd = "ok"
        /\ run[r].ret = web[r].out

\* the text before the first occurrence of tok, and the text after it
BeforeFirst(s, tok) ==
    SubSeq(s, 1, (CHOOSE i \in Occurrences(s, tok) : \A j \in Occurrences(s, tok) : i <= j) - 1)

AfterFirst(s, tok) ==
    SubSeq(s, (CHOOSE i \in Occurrences(s, tok) : \A j \in Occurrences(s, tok) : i <= j) + 1, Len(s))

\* C16: for a retrieval output with the forward marker, the search queries
\* of the verification are exactly the non-empty trimmed lines of everything
\* that follows the marker, in their order, and the summary handed over is
\* the trimmed text before the marker, also when the marker occurs more than
\* once.
DirectivesAreLinesAfterMarker ==
    \A r \in Runs :
        run[r].mode = "forward" /\ web[r].pc # "off" =>
            /\ web[r].searchQueries =
                  AsTexts(FilterNonEmpty(MapTrim(SplitOn(AfterFirst(run[r].dbResults, FWD), NL))))
            /\ JSONparse(web[r].query).val.dbResults = Trim(BeforeFirst(run[r].dbResults, FWD))

\* C17: a slow or failed web query costs only its own contribution: when
\* searches have hit their 10 s deadline, callAgent falls back to the answer
\* of the whole web stage only if the synthesis call itself has been kept
\* waiting, whatever the number of directives.
SlowSearchesKeepSynthesis ==
    [][\A r \in Runs :
          /\ ~run[r].timedOut
          /\ run'[r].timedOut
          /\ \E i \in 1..Len(web[r].searchResults) :
                 web[r].searchResults[i].error = "Search timeout"
          => /\ web[r].pc = "synth"
             /\ web[r].clock > web[r].due - SynthDeadline]_vars
\* C18: in one run of webSearchAgent the synthesis model is invoked at most
\* once, and only when every search query has its entry in the batch, with
\* results or with an error; the prompt holds the whole batch, error entries
\* included.
SynthesisOnceWithFullBatch ==
    \A r \in Runs :
        LET w == web[r]
        IN /\ w.synthCalls <= 1
           /\ Len(w.synthPrompt) = w.synthCalls
           /\ w.pc = "search" => w.synthCalls = 0
           /\ w.pc \in {"synth", "done"} => w.synthCalls = 1
           /\ w.synthCalls = 1 =>
                 /\ Len(w.searchResults) = Len(w.searchQueries)
                 /\ \A i \in 1..Len(w.searchQueries) :
                        /\ w.searchResults[i].query = w.searchQueries[i]
                        /\ w.searchResults[i].error # "none" \/ w.searchResults[i].results # "none"
                 /\ w.synthPrompt[1] =
                        [query |-> w.query, dbResults |-> w.dbResults,
                         searchResults |-> w.searchResults]

\* the synthesis model has answered a prompt whose batch of three holds a
\* timed-out search and a failed one
C18Witness ==
    \E r \in Runs :
        /\ web[r].pc = "done"
        /\ web[r].synthEnd = "ok"
        /\ Len(web[r].synthPrompt) = 1
        /\ Len(web[r].synthPrompt[1].searchResults) = 3
        /\ \E i, j \in 1..3 :
              /\ web[r].synthPrompt[1].searchResults[i].error = "Search timeout"
              /\ web[r].synthPrompt[1].searchResults[j].error = "search failed"
\* C19: both agents append to the session: when callAgent returns from a run
\* that went through verification after a retrieval without failure, the
\* session stored for its thread id holds the answer returned, as an
\* assistant message of that run.
VerificationAnswerStored ==
    \A r \in Runs :
        run[r].pc = "done" /\ run[r].mode # "none" /\ run[r].fault = "none" =>
            \E i \in 1..Len(store[run[r].thread_id]) :
                LET m == store[run[r].thread_id][i]
                IN m.run = r /\ m.role = "ai" /\ m.content = Text(run[r].ret[1])
\* the assistant messages of a sequence that request tools and are not its
\* last message
AnsweredRequests(p) ==
    {j \in 1..Len(p) : p[j].role = "ai" /\ p[j].tool_calls > 0 /\ j < Len(p)}

\* C20: in the retrieval loop the tool node runs only right after an
\* assistant reply that requests tool calls and appends one tool-result
\* message per requested call before the model is invoked again; the loop
\* ends normally only on a reply without tool call, and the value returned
\* is the content of that last assistant message.
ToolRunsAnswerRequests ==
    \A r \in Runs :
        LET p == produced[r]
            n == Len(p)
        IN /\ \A i \in 1..n :
                 p[i].role = "tool" =>
                    \E j \in AnsweredRequests(p) :
                        j < i /\ i <= j + p[j].tool_calls
           /\ \A j \in AnsweredRequests(p) :
                 /\ j + p[j].tool_calls <= n
                 /\ \A k \in (j + 1)..(j + p[j].tool_calls) : p[k].role = "tool"
                 /\ j + p[j].tool_calls < n => p[j + p[j].tool_calls + 1].role = "ai"
           /\ \A j \in 1..n : p[j].role = "ai" /\ p[j].tool_calls = 0 => j = n
           /\ run[r].pc = "tools" => p[n].role = "ai" /\ p[n].tool_calls > 0
           /\ run[r].pc = "agent" => p[n].role \in {"human", "tool"}
           /\ InRetrieval(r) /\ run[r].pc # "loading" =>
                 /\ loop[r].tools = Cardinality(AnsweredRequests(p))
                 /\ loop[r].calls = Cardinality({j \in 1..n : p[j].role = "ai"})
           /\ run[r].pc = "handoff" /\ run[r].fault = "none" =>
                 /\ p[n].role = "ai"
                 /\ p[n].tool_calls = 0
                 /\ p[n].content = Text(run[r].dbResults)
                 /\ loop[r].messages[Len(loop[r].messages)] = p[n]

\* the loop has ended on a plain reply after a reply that requested two tool
\* calls and got two tool results
C20Witness ==
    \E r \in Runs :
        /\ run[r].pc = "handoff"
        /\ run[r].fault = "none"
        /\ Len(produced[r]) = 5
        /\ produced[r][2].tool_calls = 2
        /\ produced[r][3].role = "tool"
        /\ produced[r][4].role = "tool"
        /\ produced[r][5].content = Text(run[r].dbResults)
\* C21: a failure of the vector search inside events_lookup never aborts the
\* retrieval loop: the tool node ends with one sentinel tool-result message
\* per call, carrying the no-results marker, and the loop goes on to the
\* next model invocation; the retrieval stage never fails for that reason.
ToolFailureBecomesSentinel ==
    [][\A r \in Runs :
          /\ run[r].fault' \in {"none", "model_error", "checkpoint_error", "timeout", "step_limit"}
          /\ run[r].pc = "tools" /\ run[r].vec = "error" /\ run'[r] # run[r]
                /\ run'[r].fault = "none" =>
                LET n == Len(produced[r])
                    k == produced[r][n].tool_calls
                IN /\ run'[r].pc = "agent"
                   /\ Len(produced'[r]) = n + k
                   /\ SubSeq(produced'[r], 1, n) = produced[r]
                   /\ \A i \in (n + 1)..(n + k) :
                          /\ produced'[r][i].role = "tool"
                          /\ Includes(produced'[r][i].content.toks, NONE)
                   /\ loop'[r].messages = loop[r].messages \o SubSeq(produced'[r], n + 1, n + k)]_vars

\* the vector search threw, the tool answered with the sentinel, and the
\* chat model has been invoked again and has given the final answer
C21Witness ==
    \E r \in Runs :
        /\ run[r].vec = "error"
        /\ run[r].pc = "handoff"
        /\ run[r].fault = "none"
        /\ Len(produced[r]) >= 4
        /\ produced[r][3] = ToolMessage(r, eventLookupTool("error"))
        /\ produced[r][Len(produced[r])].role = "ai"
        /\ produced[r][Len(produced[r])].content = Text(FwdTwo)
\* C22: when the retrieval output holds both the forward marker and the
\* no-results marker, the forward marker wins: verification runs in forward
\* mode with the directives parsed from the output, never in web-only mode.
ForwardMarkerWins ==
    \A r \in Runs :
        /\ run[r].pc \in {"web", "done"}
        /\ Includes(run[r].dbResults, FWD)
        /\ Includes(run[r].dbResults, NONE)
        => /\ run[r].mode = "forward"
           /\ web[r].pc # "off"
           /\ web[r].dbResults = run[r].dbResults
           /\ JSONparse(web[r].query).ok
           /\ web[r].searchQueries =
                 AsTexts(FilterNonEmpty(MapTrim(SplitOn(
                     Trim(SplitOn(run[r].dbResults, FWD)[2]), NL))))

\* an output with both markers has been verified in forward mode, with its
\* one directive searched
C22Witness ==
    \E r \in Runs :
        /\ run[r].pc = "done"
        /\ run[r].dbResults = FwdAndNone
        /\ run[r].mode = "forward"
        /\ web[r].issued = << Text(<< "x" >>) >>
        /\ run[r].ret = web[r].out
\* C23: every failure of the retrieval stage (model call error, step limit,
\* 60 s timeout, checkpoint error) reaches the controller as the no-results
\* marker: callAgent then runs the web-only verification on the user's
\* query, exactly as after a genuine no-results answer, and never returns
\* the apology.
RetrievalFailureIsNoResults ==
    /\ [](\A r \in Runs :
            /\ run[r].pc # "rejected"
            /\ run[r].ret # << Apology >>
            /\ run[r].fault # "none" =>
                  /\ run[r].fault \in {"model_error", "step_limit", "timeout", "checkpoint_error"}
                  /\ run[r].pc \in {"handoff", "web", "done"}
                  /\ run[r].dbResults = NoResults
                  /\ run[r].pc \in {"web", "done"} =>
                        /\ run[r].mode = "webonly"
                        /\ web[r].pc # "off"
                        /\ web[r].query = run[r].query
                        /\ web[r].dbResults = NoDatabaseResults)
    /\ [][\A r \in Runs :
            run[r].pc = "handoff" /\ run[r].dbResults = NoResults /\ run'[r] # run[r] =>
                /\ run'[r] = [run[r] EXCEPT !.pc = "web", !.mode = "webonly"]
                /\ web'[r] = WebStart(run[r].query, NoDatabaseResults)]_vars

\* the step limit ended the retrieval, and callAgent has returned the answer
\* of the web-only verification
C23Witness ==
    \E r \in Runs :
        /\ run[r].pc = "done"
        /\ run[r].fault = "step_limit"
        /\ run[r].mode = "webonly"
        /\ web[r].issued = << run[r].query >>
        /\ web[r].synthEnd = "ok"
        /\ run[r].ret = web[r].out
\* C24: in web-only mode, for every user query, webSearchAgent issues exactly
\* one web search, whose query is the user's text verbatim, also when that
\* text can be parsed as JSON.
WebOnlySearchesUserText ==
    \A r \in Runs :
        run[r].mode = "webonly" /\ web[r].pc # "off" =>
            /\ web[r].searchQueries = << run[r].query >>
            /\ web[r].issued = << run[r].query >>

====
